---- MODULE Spec2Model ----
(***************************************************************************)
(* A model of the tech-watch pipeline of src/src/agent (planning,          *)
(* collection, filtering, synthesis, output) and of the history store of   *)
(* src/src/history_tracker.py.                                             *)
(*                                                                         *)
(* Strings are sequences of one-character strings, so that lower(),        *)
(* strip() and slicing are computed and not assumed.  md5 is modelled as   *)
(* a collision-free tag around the bytes it is given.  Time is counted in  *)
(* whole days.                                                             *)
(***************************************************************************)
EXTENDS Integers, Sequences, FiniteSets, TLC

VARIABLES
    \* ---- the run context and the history store ----
    now,            \* datetime.now(), in days
    file,           \* output/sent_history.json
    pc,             \* position of the current run
    max_items_per_source,
    source_results, \* state["source_results"], in the order of the mapping
    filtered_items, \* state["filtered_items"]
    new_items,      \* state["new_items"]
    seen_items,     \* state["seen_items"]
    deduplicated_count,
    result,         \* what run_tech_watch returns
    cleanupRan,     \* whether this run's classify ran cleanup_old_entries
    saveRaised,     \* whether this run's mark_items_as_sent raised
    lastPass,       \* time of the latest cleanup_old_entries pass, NoPass if none
    sentItems,      \* items given to the latest completed mark_items_as_sent
    sentAt,         \* time of that call
    \* ---- the environment of a run ----
    user_query,         \* state["user_query"]
    focus,              \* state["focus"]
    sources_to_query,   \* state["sources_to_query"]
    priority_sources,   \* state["priority_sources"]
    secondary_sources,  \* state["secondary_sources"]
    feeds,              \* for each tool, the item lists it can return
    gemini_key,         \* whether GOOGLE_API_KEY is set
    mistral_key,        \* whether MISTRAL_API_KEY is set
    \* ---- collection_node ----
    primary_tasks,      \* the fetch_source coroutines of the first gather
    secondary_tasks,    \* those of the second gather
    local,              \* its locals source_results, errors, api_calls
    requests,           \* for each tool inside safe_request, where it is
    finished,           \* the names of the tasks that are done, in the order
                        \* in which they finished
    \* ---- shared state keys ----
    errors,             \* state["errors"]
    total_api_calls,    \* state["total_api_calls"]
    \* ---- synthesis_node ----
    provider_idx,       \* position of the loop over providers
    attempts,           \* the calls made to providers, with their outcomes
    synthesis,          \* state["synthesis"]
    section_summaries,  \* state["section_summaries"]
    llm_provider,       \* state["metadata"]["llm_provider"]
    \* ---- a second request served on the same event loop ----
    other               \* the position and the items of its run

historyVars == <<now, file, cleanupRan, saveRaised, lastPass, sentItems, sentAt>>

envVars == <<user_query, focus, sources_to_query, priority_sources,
             secondary_sources, feeds,
             gemini_key, mistral_key, max_items_per_source>>

collectVars == <<primary_tasks, secondary_tasks, local, requests, finished>>

filterVars == <<filtered_items, new_items, seen_items, deduplicated_count>>

synthVars == <<provider_idx, attempts, synthesis, section_summaries,
               llm_provider>>

overlapVars == <<other>>

vars == <<historyVars, envVars, collectVars, filterVars, synthVars,
          overlapVars, pc, source_results, result, errors, total_api_calls>>

\* ------------------------------------------------------------------ bounds
MaxNow == 15
MaxOffset == 1
MaxItems == 2
MaxRaw == 3
MaxSources == 3
MaxDigest == 2
MaxRank == 6

\* --------------------------------------------------------------- constants
HISTORY_RETENTION_DAYS == 14
CLEANUP_INTERVAL_DAYS == 1
NoPass == 0 - 1

\* ----------------------------------------------------------------- strings
UpperCase ==
    <<"A", "B", "C", "D", "E", "F", "G", "H", "I", "J", "K", "L", "M",
      "N", "O", "P", "Q", "R", "S", "T", "U", "V", "W", "X", "Y", "Z">>

LowerCase ==
    <<"a", "b", "c", "d", "e", "f", "g", "h", "i", "j", "k", "l", "m",
      "n", "o", "p", "q", "r", "s", "t", "u", "v", "w", "x", "y", "z">>

LowerOf ==
    [c \in { UpperCase[i] : i \in DOMAIN UpperCase } |->
       LowerCase[CHOOSE i \in DOMAIN UpperCase : UpperCase[i] = c]]

lowerChar(c) == IF c \in DOMAIN LowerOf THEN LowerOf[c] ELSE c

\* str.lower()
lower(s) == [i \in DOMAIN s |-> lowerChar(s[i])]

Whitespace == {" ", "\t", "\n"}

\* str.strip()
strip(s) ==
    IF \A i \in DOMAIN s : s[i] \in Whitespace THEN <<>>
    ELSE LET first == CHOOSE i \in DOMAIN s :
                        /\ s[i] \notin Whitespace
                        /\ \A j \in 1..(i - 1) : s[j] \in Whitespace
             last == CHOOSE i \in DOMAIN s :
                       /\ s[i] \notin Whitespace
                       /\ \A j \in (i + 1)..Len(s) : s[j] \in Whitespace
         IN  SubSeq(s, first, last)

\* s[:n]
Take(s, n) == SubSeq(s, 1, IF Len(s) < n THEN Len(s) ELSE n)

\* kw in s
Contains(s, kw) ==
    \E i \in 0..(Len(s) - Len(kw)) :
      \A k \in DOMAIN kw : s[i + k] = kw[k]

\* hashlib.md5(...).hexdigest(), taken as free of collisions
md5(s) == <<"md5", s>>

Range(l) == { l[i] : i \in DOMAIN l }

NoDup(l) == \A i, j \in DOMAIN l : i # j => l[i] # l[j]

RECURSIVE ListsOver(_, _)
ListsOver(S, n) ==
    IF n = 0 THEN { <<>> }
    ELSE LET shorter == ListsOver(S, n - 1)
         IN  shorter \cup
             { Append(l, x) : l \in { m \in shorter : Len(m) = n - 1 },
                              x \in S }

\* ------------------------------------------------------------------- items
\* A raw item as a source returns it.  described stands for a non-empty
\* description, selftext or summary.  _source, _relevance_score and
\* _times_seen are the keys filtering_node and separate_new_and_seen add
\* (NoSource, 0 and 0 stand for an absent key).
NoSource == <<>>

Item(url, title, score) ==
    [url |-> url, link |-> <<>>, title |-> title, score |-> score,
     num_comments |-> 0, described |-> TRUE,
     _source |-> NoSource, _relevance_score |-> 0, _times_seen |-> 0]

\* Error texts are pairs <<kind, detail>>; NoError stands for None.
NoError == <<>>

SourceResult(source_name, items) ==
    [source_name |-> source_name, items |-> items, error |-> NoError]

FailedResult(source_name, error) ==
    [source_name |-> source_name, items |-> <<>>, error |-> error]

get_item_hash(item) ==
    LET key == IF item.url # <<>> THEN item.url
               ELSE IF item.link # <<>> THEN item.link
               ELSE item.title
    IN  md5(lower(key))

\* ------------------------------------------------------------ history store
EmptyItems == [h \in {} |-> 0]

FreshHistory(t) == [items |-> EmptyItems, last_cleanup |-> t]

MissingFile == [kind |-> "missing", data |-> FreshHistory(0)]

JsonFile(history) == [kind |-> "json", data |-> history]

\* A file open() cannot read (IOError) and a file json.load cannot parse
\* (JSONDecodeError): load_history catches both.
UnreadableFile == [kind |-> "unreadable", data |-> FreshHistory(0)]

TruncatedFile == [kind |-> "truncated", data |-> FreshHistory(0)]

\* A file whose bytes are not UTF-8 (UnicodeDecodeError) and a file that holds
\* JSON of another shape, such as null, [] or {} (AttributeError, KeyError in
\* the callers): these exceptions are not caught.
UndecodableFile == [kind |-> "undecodable", data |-> FreshHistory(0)]

MalformedFile == [kind |-> "malformed", data |-> FreshHistory(0)]

\* Whether load_history, or the first use its caller makes of what it
\* returned, raises.
load_raises(f) == f.kind \in {"undecodable", "malformed"}

load_history(f, t) ==
    IF f.kind = "json" THEN f.data ELSE FreshHistory(t)

\* The comparison of cleanup_old_entries turned around.
cleanup_keeps_old(history, t) ==
    LET cutoff == t - HISTORY_RETENTION_DAYS
        kept == { h \in DOMAIN history.items :
                    history.items[h].first_seen <= cutoff }
    IN  [items |-> [h \in kept |-> history.items[h]], last_cleanup |-> t]

cleanup_old_entries(history, t) ==
    LET cutoff == t - HISTORY_RETENTION_DAYS
        kept == { h \in DOMAIN history.items :
                    history.items[h].first_seen > cutoff }
    IN  [items |-> [h \in kept |-> history.items[h]], last_cleanup |-> t]

cleanup_due(history, t) == t - history.last_cleanup > CLEANUP_INTERVAL_DAYS

\* The loop of separate_new_and_seen.  acc.all is the list given, whose
\* items the loop marks in place.
RECURSIVE classify_loop(_, _, _, _, _)
classify_loop(items, i, seen_hashes, acc, t) ==
    IF i > Len(items) THEN [acc EXCEPT !.seen_hashes = seen_hashes]
    ELSE
      LET item == items[i]
          item_hash == get_item_hash(item)
      IN  IF item_hash \in DOMAIN seen_hashes
          THEN LET e == [seen_hashes[item_hash] EXCEPT
                            !.times_seen = @ + 1, !.last_seen = t]
                   marked == [item EXCEPT !._times_seen = e.times_seen]
               IN  classify_loop(items, i + 1,
                                 [seen_hashes EXCEPT ![item_hash] = e],
                                 [acc EXCEPT !.seen = Append(@, marked),
                                             !.all = Append(@, marked)], t)
          ELSE classify_loop(items, i + 1, seen_hashes,
                             [acc EXCEPT !.new = Append(@, item),
                                         !.all = Append(@, item)], t)

\* separate_new_and_seen followed by save_history(history).
classify_and_save(f, items, t) ==
    LET loaded == load_history(f, t)
        due == cleanup_due(loaded, t)
        history == IF due THEN cleanup_old_entries(loaded, t) ELSE loaded
        r == classify_loop(items, 1, history.items,
                           [new |-> <<>>, seen |-> <<>>, all |-> <<>>,
                            seen_hashes |-> EmptyItems], t)
    IN  [new |-> r.new, seen |-> r.seen, all |-> r.all, cleaned |-> due,
         history |-> [history EXCEPT !.items = r.seen_hashes],
         file |-> JsonFile([history EXCEPT !.items = r.seen_hashes])]

\* history is the dict the call has built when it returns; file is the file
\* as the call leaves it: there is no save_history in it.
separate_new_and_seen(f, items, t) ==
    LET loaded == load_history(f, t)
        due == cleanup_due(loaded, t)
        history == IF due THEN cleanup_old_entries(loaded, t) ELSE loaded
        r == classify_loop(items, 1, history.items,
                           [new |-> <<>>, seen |-> <<>>, all |-> <<>>,
                            seen_hashes |-> EmptyItems], t)
    IN  [new |-> r.new, seen |-> r.seen, all |-> r.all, cleaned |-> due,
         history |-> [history EXCEPT !.items = r.seen_hashes],
         file |-> f]

NewEntry(item, t) ==
    [title |-> item.title,
     url |-> IF item.url # <<>> THEN item.url ELSE item.link,
     first_seen |-> t, last_seen |-> t, times_seen |-> 1]

RECURSIVE mark_loop(_, _, _, _)
mark_loop(items, i, entries, t) ==
    IF i > Len(items) THEN entries
    ELSE
      LET item == items[i]
          item_hash == get_item_hash(item)
      IN  IF item_hash \notin DOMAIN entries
          THEN mark_loop(items, i + 1,
                         [h \in DOMAIN entries \cup {item_hash} |->
                            IF h = item_hash THEN NewEntry(item, t)
                            ELSE entries[h]], t)
          ELSE mark_loop(items, i + 1, entries, t)

\* A commit that writes its own items without loading the file first.
mark_without_load(f, items, t) ==
    [FreshHistory(t) EXCEPT !.items = mark_loop(items, 1, EmptyItems, t)]

mark_items_as_sent(f, items, t) ==
    LET history == load_history(f, t)
    IN  [history EXCEPT !.items = mark_loop(items, 1, history.items, t)]

\* ------------------------------------------------------------ planning_node
FOCUS_SOURCE_MAPPING ==
    [general |-> <<"github_trending", "hackernews", "reddit_programming",
                   "tech_news", "lobsters", "producthunt">>,
     ai |-> <<"github_trending", "hackernews", "reddit_ml", "reddit_llm",
              "arxiv_ai", "tech_news_ai">>,
     devops |-> <<"github_trending", "reddit_devops", "reddit_selfhosted",
                  "hackernews", "tech_news_devops">>,
     web |-> <<"github_trending", "reddit_programming", "reddit_webdev",
               "hackernews", "producthunt">>,
     security |-> <<"github_trending", "reddit_netsec", "hackernews",
                    "tech_news_security">>,
     tools |-> <<"github_trending", "producthunt", "devhunt", "hackernews",
                 "reddit_selfhosted">>,
     all |-> <<"github_trending", "hackernews", "reddit_programming",
               "reddit_ml", "reddit_devops", "lobsters", "producthunt",
               "tech_news", "youtube_tech">>]

PRIORITY_SOURCES ==
    {"github_trending", "hackernews", "reddit_programming", "reddit_ml",
     "lobsters"}

SECONDARY_SOURCES == {"producthunt", "devhunt", "youtube_tech", "web_search"}

keywords_ai ==
    { <<"i", "a">>,
      <<"a", "i">>,
      <<"l", "l", "m">>,
      <<"g", "p", "t">>,
      <<"m", "a", "c", "h", "i", "n", "e", " ", "l", "e", "a", "r", "n", "i", "n", "g">>,
      <<"m", "l">>,
      <<"d", "e", "e", "p", " ", "l", "e", "a", "r", "n", "i", "n", "g">> }

keywords_devops ==
    { <<"d", "e", "v", "o", "p", "s">>,
      <<"k", "u", "b", "e", "r", "n", "e", "t", "e", "s">>,
      <<"k", "8", "s">>,
      <<"d", "o", "c", "k", "e", "r">>,
      <<"c", "l", "o", "u", "d">>,
      <<"i", "n", "f", "r", "a">>,
      <<"s", "r", "e">> }

\* "e-acute" is the one character of that name.
keywords_security ==
    { <<"s", "e", "c", "u", "r", "i", "t", "y">>,
      <<"s", "e-acute", "c", "u", "r", "i", "t", "e-acute">>,
      <<"h", "a", "c", "k">>,
      <<"v", "u", "l", "n", "e", "r", "a", "b", "i", "l", "i", "t", "y">>,
      <<"c", "v", "e">> }

keywords_web ==
    { <<"w", "e", "b">>,
      <<"f", "r", "o", "n", "t", "e", "n", "d">>,
      <<"b", "a", "c", "k", "e", "n", "d">>,
      <<"r", "e", "a", "c", "t">>,
      <<"v", "u", "e">>,
      <<"j", "a", "v", "a", "s", "c", "r", "i", "p", "t">>,
      <<"t", "y", "p", "e", "s", "c", "r", "i", "p", "t">> }

any_in(keywords, query) == \E kw \in keywords : Contains(query, kw)

\* The focus planning_node writes back: the first keyword list of which a
\* keyword occurs in the lower-cased query, else the focus asked for.
detected_focus(query, asked) ==
    LET q == lower(query)
    IN  IF any_in(keywords_ai, q) THEN "ai"
        ELSE IF any_in(keywords_devops, q) THEN "devops"
        ELSE IF any_in(keywords_security, q) THEN "security"
        ELSE IF any_in(keywords_web, q) THEN "web"
        ELSE asked

focus_sources(query, asked) ==
    LET detected == detected_focus(query, asked)
        q == lower(query)
        matched == \/ any_in(keywords_ai, q) \/ any_in(keywords_devops, q)
                   \/ any_in(keywords_security, q) \/ any_in(keywords_web, q)
    IN  IF matched THEN FOCUS_SOURCE_MAPPING[detected]
        ELSE IF asked \in DOMAIN FOCUS_SOURCE_MAPPING
        THEN FOCUS_SOURCE_MAPPING[asked]
        ELSE FOCUS_SOURCE_MAPPING["general"]

\* list(set(l)): the elements of l, once each, in any order.
list_of_set(S) ==
    { l \in [1..Cardinality(S) -> S] : \A i, j \in DOMAIN l : i # j => l[i] # l[j] }

\* The updates planning_node can return.
planning_node(query, asked) ==
    LET detected == detected_focus(query, asked)
        sources == focus_sources(query, asked)
        priority == SelectSeq(sources, LAMBDA s : s \in PRIORITY_SOURCES)
        secondary == SelectSeq(sources, LAMBDA s : s \in SECONDARY_SOURCES)
        widened == detected = "general" \/ asked = "all"
        priorities ==
            IF widened
            THEN list_of_set(Range(priority) \cup {"github_trending", "hackernews"})
            ELSE {priority}
        secondaries ==
            IF widened
            THEN list_of_set(Range(secondary) \cup {"producthunt", "tech_news"})
            ELSE {secondary}
    IN  { [sources_to_query |-> p \o s, priority_sources |-> p,
           secondary_sources |-> s, focus |-> detected] :
            p \in priorities, s \in secondaries }

\* ---------------------------------------------------------- collection_node
AVAILABLE_TOOLS ==
    {"reddit_programming", "reddit_ml", "reddit_llm", "reddit_devops",
     "reddit_selfhosted", "reddit_netsec", "reddit_webdev", "github_trending",
     "hackernews", "lobsters", "producthunt", "devhunt", "tech_news",
     "youtube_tech", "web_search", "arxiv_ai"}

NoSourceError == <<"Aucune source configuree pour cette requete", "">>

ToolNotFound(source_name) == <<"Tool non trouve", source_name>>

FetchError(source_name) == <<"Erreur", source_name>>

\* A fetch_source coroutine handed to asyncio.gather.
Task(source_name) ==
    [source_name |-> source_name, done |-> FALSE,
     result |-> SourceResult(source_name, <<>>)]

start_tasks(names) == [i \in DOMAIN names |-> Task(names[i])]

\* [fetch_source(s) for s in priority_sources], without the test on
\* sources_to_query.
priority_unfiltered(to_query, priority) == priority

\* [fetch_source(s) for s in priority_sources if s in sources_to_query]
priority_list(to_query, priority) ==
    SelectSeq(priority, LAMBDA s : s \in Range(to_query))

\* [s for s in sources_to_query if s not in priority_sources]
secondary_list(to_query, priority) ==
    SelectSeq(to_query, LAMBDA s : s \notin Range(priority))

\* source_results[source_name] = result: a key already there keeps its place.
put(results, r) ==
    IF \E i \in DOMAIN results : results[i].source_name = r.source_name
    THEN [i \in DOMAIN results |->
            IF results[i].source_name = r.source_name THEN r ELSE results[i]]
    ELSE Append(results, r)

\* The loop over the results of a gather, counting a call and recording the
\* error only for the results that carry items.
RECURSIVE merge_counts_items_only(_, _, _)
merge_counts_items_only(loc, tasks, i) ==
    IF i > Len(tasks) THEN loc
    ELSE LET r == tasks[i].result
         IN  merge_counts_items_only(
               [source_results |-> put(loc.source_results, r),
                errors |-> loc.errors,
                api_calls |-> loc.api_calls
                              + (IF r.error = NoError THEN 1 ELSE 0)],
               tasks, i + 1)

\* The loop over the results of a gather, in the order of the task list.
RECURSIVE merge_loop(_, _, _)
merge_loop(loc, tasks, i) ==
    IF i > Len(tasks) THEN loc
    ELSE LET r == tasks[i].result
         IN  merge_loop(
               [source_results |-> put(loc.source_results, r),
                errors |-> IF r.error # NoError
                           THEN Append(loc.errors, r.error) ELSE loc.errors,
                api_calls |-> loc.api_calls + 1],
               tasks, i + 1)

\* The tasks of a gather in the order in which they finished.
by_completion(tasks) ==
    LET names == SelectSeq(finished,
                           LAMBDA n : \E i \in DOMAIN tasks :
                                          tasks[i].source_name = n)
    IN  [k \in DOMAIN names |->
           tasks[CHOOSE i \in DOMAIN tasks : tasks[i].source_name = names[k]]]

\* The loop over the results of a gather, taken as they came in.
merge_as_finished(loc, tasks) == merge_loop(loc, by_completion(tasks), 1)

\* "for source_name, result in priority_results": gather gives the results
\* in the order of the coroutines it was given.
merge(loc, tasks) == merge_loop(loc, tasks, 1)

\* A gather that hands over as soon as one of its tasks is done.
gather_first_done(tasks) == tasks = <<>> \/ \E i \in DOMAIN tasks : tasks[i].done

\* await asyncio.gather(*tasks) resumes once every task is done.
gather_done(tasks) == \A i \in DOMAIN tasks : tasks[i].done

NoLocals == [source_results |-> <<>>, errors |-> <<>>, api_calls |-> 0]

\* ------------------------------------------------------------- safe_request
MAX_RETRIES == 2

\* What one pass of the loop can meet: a response that raise_for_status
\* accepts, httpx.TimeoutException, HTTPStatusError with status 429,
\* HTTPStatusError with another status, any other exception.
Outcomes == {"ok", "timeout", "rate_limited", "status", "exception"}

RECURSIVE Pow2(_)
Pow2(n) == IF n = 0 THEN 1 ELSE 2 * Pow2(n - 1)

\* safe_request at the top of "for attempt in range(MAX_RETRIES)"; response
\* is whether a Response and not None is returned, outcomes and sleeps record
\* what the passes met and the calls of asyncio.sleep.
NewRequest ==
    [attempt |-> 0,
     at |-> IF 0 < MAX_RETRIES THEN "request" ELSE "returned",
     response |-> FALSE, outcomes |-> <<>>, sleeps |-> <<>>]

\* The loop goes on to its next pass, or ends and None is returned.
next_attempt(rq) ==
    [rq EXCEPT !.attempt = @ + 1,
               !.at = IF rq.attempt + 1 < MAX_RETRIES
                      THEN "request" ELSE "returned"]

\* One pass of the loop, up to its end or to its await of asyncio.sleep.
after_request(rq, outcome) ==
    LET met == [rq EXCEPT !.outcomes = Append(@, outcome)]
    IN  CASE outcome = "ok" ->
                 [met EXCEPT !.response = TRUE, !.at = "returned"]
          [] outcome = "timeout" -> next_attempt(met)
          [] outcome = "rate_limited" ->
                 [met EXCEPT !.at = "sleep",
                             !.sleeps = Append(@, [attempt |-> rq.attempt,
                                                   seconds |-> Pow2(rq.attempt)])]
          [] OTHER -> [met EXCEPT !.at = "returned"]

\* asyncio.sleep(2 ** attempt) is over.
after_sleep(rq) == next_attempt(rq)

\* The tools that start with "response = await safe_request(...)" followed by
\* "if not response: return []": fetch_reddit_subreddit, fetch_github_trending
\* and fetch_hackernews (whose later requests, one per story, only decide
\* which stories it returns).
RequestTools ==
    {"reddit_programming", "reddit_ml", "reddit_llm", "reddit_devops",
     "reddit_selfhosted", "reddit_netsec", "reddit_webdev", "github_trending",
     "hackernews"}

\* What such a tool returns, posts being what it reads in the response.
fetch_reddit_subreddit(response, posts) == IF response THEN posts ELSE <<>>

\* ---------------------------------------------------------- filtering_node
TITLE_HASH_CHARS == 50
MAX_TOTAL_FACTOR == 5
DEFAULT_MAX_ITEMS == 10

\* The items of every source result, in the order of the mapping, each tagged
\* with its source.
RECURSIVE all_items(_)
all_items(results) ==
    IF results = <<>> THEN <<>>
    ELSE LET r == Head(results)
         IN  [i \in DOMAIN r.items |->
                [r.items[i] EXCEPT !._source = r.source_name]]
             \o all_items(Tail(results))

title_hash(item) == md5(Take(strip(lower(item.title)), TITLE_HASH_CHARS))

RECURSIVE dedup_loop(_, _, _, _, _)
dedup_loop(all, i, seen_urls, seen_titles, unique_items) ==
    IF i > Len(all) THEN unique_items
    ELSE
      LET item == all[i]
          url == item.url
          th == title_hash(item)
      IN  IF url # <<>> /\ url \notin seen_urls /\ th \notin seen_titles
          THEN dedup_loop(all, i + 1, seen_urls \cup {url},
                          seen_titles \cup {th}, Append(unique_items, item))
          ELSE dedup_loop(all, i + 1, seen_urls, seen_titles, unique_items)

\* The dedup loop without its test of the title hash.
RECURSIVE dedup_by_url(_, _, _)
dedup_by_url(all, i, seen_urls) ==
    IF i > Len(all) THEN <<>>
    ELSE IF all[i].url # <<>> /\ all[i].url \notin seen_urls
         THEN <<all[i]>> \o dedup_by_url(all, i + 1, seen_urls \cup {all[i].url})
         ELSE dedup_by_url(all, i + 1, seen_urls)

dedup_url_only(all) == dedup_by_url(all, 1, {})

dedup(all) == dedup_loop(all, 1, {}, {}, <<>>)

promo_keywords ==
    { <<"s", "p", "o", "n", "s", "o", "r", "e", "d">>,
      <<"a", "d", ":">>,
      <<"[", "a", "d", "]">>,
      <<"p", "r", "o", "m", "o", "t", "i", "o", "n">>,
      <<"b", "u", "y", " ", "n", "o", "w">>,
      <<"d", "i", "s", "c", "o", "u", "n", "t">>,
      <<"c", "o", "u", "p", "o", "n">>,
      <<"d", "e", "a", "l", ":">>,
      <<"s", "a", "l", "e", ":">> }

\* The promotional filter that lets every item through.
keeps_all(item) == TRUE

is_promo(item) ==
    \E title \in {lower(item.title)} :
      \E kw \in promo_keywords : Contains(title, kw)

not_promo(item) == ~is_promo(item)

Min(a, b) == IF a < b THEN a ELSE b

\* Source names that contain "reddit".
RedditSources ==
    {"reddit_programming", "reddit_ml", "reddit_llm", "reddit_devops",
     "reddit_selfhosted", "reddit_netsec", "reddit_webdev"}

\* compute_score, in hundredths of a point.
compute_score(item) ==
    Min(item.score, 1000)
    + Min(2 * item.num_comments, 500)
    + ( IF item._source \in {"hackernews", "lobsters"} THEN 300
        ELSE IF item._source = "github_trending" THEN 400
        ELSE IF item._source \in RedditSources THEN 200
        ELSE 0 )
    - ( IF item.described THEN 0 ELSE 100 )

scored(l) == [i \in DOMAIN l |->
                [l[i] EXCEPT !._relevance_score = compute_score(l[i])]]

\* x put behind the items of front that score at least as much.
insert_desc(front, x) ==
    LET k == Cardinality({ i \in DOMAIN front :
                             front[i]._relevance_score >= x._relevance_score })
    IN  SubSeq(front, 1, k) \o <<x>> \o SubSeq(front, k + 1, Len(front))

\* The list left as it is, in place of the sort.
unsorted(l) == l

\* list.sort(key=_relevance_score, reverse=True): stable, so items of equal
\* score keep their order.
RECURSIVE sort_desc(_)
sort_desc(l) ==
    IF l = <<>> THEN <<>>
    ELSE CHOOSE sorted \in
           { insert_desc(front, l[Len(l)]) :
               front \in {sort_desc(SubSeq(l, 1, Len(l) - 1))} } : TRUE

cap(l, max_items) ==
    LET max_total_items == max_items * MAX_TOTAL_FACTOR
    IN  IF Len(l) > max_total_items THEN SubSeq(l, 1, max_total_items) ELSE l

\* filtering_node up to the cap: dedup, promotional filter, scoring, sort, cap.
curate(results, max_items) ==
    cap(sort_desc(scored(SelectSeq(dedup(all_items(results)),
                                   not_promo))),
        max_items)

filtering_node(results, max_items, f, t) ==
    LET all == all_items(results)
        unique_items == dedup(all)
        r == separate_new_and_seen(f, curate(results, max_items), t)
    IN  [filtered_items |-> r.all,
         new_items |-> r.new,
         seen_items |-> r.seen,
         deduplicated_count |-> Len(all) - Len(unique_items),
         cleaned |-> r.cleaned,
         file |-> r.file]

\* ----------------------------------------------------------- synthesis_node
RECALLS_SHOWN == 10

\* recalls = seen_items[:10], the reminders of the prompt.
recalls(seen) == Take(seen, RECALLS_SHOWN)

MAX_PER_CATEGORY == 15
TOOLS_SHOWN == 8
ARTICLES_SHOWN == 10
AI_DATA_SHOWN == 5
VIDEOS_SHOWN == 3
ERRORS_SHOWN == 3
TITLE_SHOWN == 80
VIDEO_TITLE_SHOWN == 60

\* get_available_llm_providers with mistral put first.
providers_mistral_first(gk, mk) ==
    (IF mk THEN <<"mistral">> ELSE <<>>) \o (IF gk THEN <<"gemini">> ELSE <<>>)

get_available_llm_providers(gk, mk) ==
    (IF gk THEN <<"gemini">> ELSE <<>>) \o (IF mk THEN <<"mistral">> ELSE <<>>)

Categories == {"tools", "articles", "ai_data", "videos"}

source_category_map ==
    [s \in {"github_trending", "producthunt", "devhunt"} |-> "tools"]
    @@ [s \in {"hackernews", "lobsters", "tech_news", "reddit_programming",
               "reddit_webdev", "reddit_devops", "reddit_selfhosted",
               "reddit_netsec", "web_search", "web_search_ddg"} |-> "articles"]
    @@ [s \in {"reddit_ml", "reddit_llm", "arxiv_ai"} |-> "ai_data"]
    @@ [s \in {"youtube_tech"} |-> "videos"]

category_of(item) ==
    IF item._source \in DOMAIN source_category_map
    THEN source_category_map[item._source]
    ELSE "articles"

\* The new items by category, each category cut to MAX_PER_CATEGORY.
categorize(items) ==
    [c \in Categories |->
       Take(SelectSeq(items, LAMBDA item : category_of(item) = c),
            MAX_PER_CATEGORY)]

counts(categories) == [c \in Categories |-> Len(categories[c])]

NoCounts == [c \in Categories |-> 0]

\* A text is a kind and lines; a line is a tag, a text, a URL and a number.
Line(tag, text, url, n) == [tag |-> tag, text |-> text, url |-> url, n |-> n]

Text(kind, lines) == [kind |-> kind, lines |-> lines]

EmptyText == Text("empty", <<>>)

NoDataText == Text("no data", <<Line("Aucune donnee collectee", <<>>, <<>>, 0)>>)

DegradedMarker == "Veille Tech (Mode degrade - sans LLM)"

\* response.content of a provider that answers.
LlmReply(provider) == Text("llm", <<Line("reply", <<provider>>, <<>>, 0)>>)

\* The line of a tool: its name, not cut.
tool_line(item) == Line("item", item.title, item.url, item.score)

\* The line of an article or of an IA/Data entry: its title cut to TITLE_SHOWN.
article_line(item) ==
    Line("item", Take(item.title, TITLE_SHOWN), item.url, item.score)

video_line(item) ==
    Line("item", Take(item.title, VIDEO_TITLE_SHOWN), item.url, 0)

tool_lines(items) ==
    [i \in 1..Min(Len(items), TOOLS_SHOWN) |-> tool_line(items[i])]

article_lines(items, shown) ==
    [i \in 1..Min(Len(items), shown) |-> article_line(items[i])]

video_lines(items) ==
    [i \in 1..Min(Len(items), VIDEOS_SHOWN) |-> video_line(items[i])]

\* One section of the template: nothing for an empty category, else a header
\* and the lines of its first items.
section(header, item_lines) ==
    IF item_lines = <<>> THEN <<>>
    ELSE <<Line(header, <<>>, <<>>, 0)>> \o item_lines

generate_fallback_synthesis(categories, errs) ==
    Text("template",
         <<Line(DegradedMarker, <<>>, <<>>, 0)>>
         \o ( IF errs = <<>> THEN <<>>
              ELSE <<Line("Erreurs", <<>>, <<>>,
                          Min(Cardinality(Range(errs)), ERRORS_SHOWN))>> )
         \o section("Top Outils/Projets", tool_lines(categories["tools"]))
         \o section("Top Articles/Discussions",
                    article_lines(categories["articles"], ARTICLES_SHOWN))
         \o section("IA/Data",
                    article_lines(categories["ai_data"], AI_DATA_SHOWN))
         \o section("Videos", video_lines(categories["videos"]))
         \o <<Line("Synthese generee en mode degrade", <<>>, <<>>, 0)>>)

NoLlmError == <<"Aucun LLM configure", "">>

AllLlmFailed(provider) == <<"Tous les LLMs ont echoue", provider>>

NoProvider == "none"

\* A store a first run has left: one item committed on day 0.
StoreWithOneItem ==
    JsonFile(mark_items_as_sent(MissingFile, <<Item(<<"u">>, <<"a">>, 0)>>, 0))

\* "Quoi de neuf en tech ?", the query of create_initial_state.
DefaultQuery ==
    <<"Q", "u", "o", "i", " ", "d", "e", " ", "n", "e", "u", "f", " ", "e",
      "n", " ", "t", "e", "c", "h", " ", "?">>

\* ------------------------------------------------------------------- runs
\* No second request is being served.
NoOther ==
    [pc |-> "none", source_results |-> <<>>, new_items |-> <<>>,
     committed |-> FALSE]

NoResult == [kind |-> "none", text |-> <<>>, completed |-> FALSE]

\* Items the sources return from run to run: two whose URLs differ only by
\* case, one other.
HistoryPool ==
    { Item(<<"u">>, <<"a">>, 0),
      Item(<<"U">>, <<"b">>, 0),
      Item(<<"v">>, <<"c">>, 0) }

HistoryFeeds == { m \in ListsOver(HistoryPool, MaxItems) : NoDup(m) }

NoFeeds == [s \in AVAILABLE_TOOLS |-> {}]

\* The state create_initial_state builds, before any node has run.
FreshState ==
    /\ source_results = <<>>
    /\ filtered_items = <<>>
    /\ new_items = <<>>
    /\ seen_items = <<>>
    /\ deduplicated_count = 0
    /\ errors = <<>>
    /\ total_api_calls = 0
    /\ synthesis = EmptyText
    /\ section_summaries = NoCounts
    /\ llm_provider = NoProvider
    /\ result = NoResult
    /\ primary_tasks = <<>>
    /\ secondary_tasks = <<>>
    /\ local = NoLocals
    /\ requests = <<>>
    /\ finished = <<>>
    /\ other = NoOther
    /\ provider_idx = 0
    /\ attempts = <<>>
    /\ cleanupRan = FALSE
    /\ saveRaised = FALSE

\* Runs of one request, the default query with the focus "security", planned
\* by planning_node on github_trending and hackernews; GOOGLE_API_KEY is set,
\* the tools and the provider answer, github_trending has nothing to return;
\* no history file yet.
RunFeeds ==
    [s \in AVAILABLE_TOOLS |-> IF s = "hackernews" THEN HistoryFeeds ELSE {<<>>}]

RunInit ==
    /\ now = 0
    /\ file = MissingFile
    /\ pc = "planned"
    /\ max_items_per_source = DEFAULT_MAX_ITEMS
    /\ user_query = DefaultQuery
    /\ focus = "security"
    /\ \E plan \in planning_node(DefaultQuery, "security") :
         /\ sources_to_query = plan.sources_to_query
         /\ priority_sources = plan.priority_sources
         /\ secondary_sources = plan.secondary_sources
    /\ feeds = RunFeeds
    /\ gemini_key = TRUE
    /\ mistral_key = FALSE
    /\ FreshState
    /\ lastPass = NoPass
    /\ sentItems = {}
    /\ sentAt = 0

Init == RunInit

\* The instants at which runs are observed: the first days of each retention
\* window, so that gaps of 0, 1 and 2 days and gaps around
\* HISTORY_RETENTION_DAYS all occur.
Clock == { t \in 0..MaxNow : t % HISTORY_RETENTION_DAYS <= MaxOffset }

\* The clock moves between two runs.
Tick ==
    /\ pc = "planned"
    /\ \E t \in Clock :
         /\ t > now
         /\ now' = t
    /\ UNCHANGED <<file, cleanupRan, saveRaised, lastPass, sentItems, sentAt,
                   envVars, overlapVars, collectVars, filterVars, synthVars, pc,
                   source_results, result, errors, total_api_calls>>

\* collection_node up to its first await: the early return when there is no
\* source, else the first gather.
CollectStart ==
    /\ pc = "planned"
    /\ IF sources_to_query = <<>>
       THEN /\ errors' = <<NoSourceError>>
            /\ pc' = "collected"
            /\ UNCHANGED collectVars
       ELSE /\ primary_tasks' =
                  start_tasks(priority_list(sources_to_query, priority_sources))
            /\ local' = [source_results |-> <<>>, errors |-> errors,
                         api_calls |-> 0]
            /\ pc' = "primary"
            /\ UNCHANGED <<secondary_tasks, errors, requests, finished>>
    /\ UNCHANGED <<historyVars, envVars, overlapVars, filterVars, synthVars, source_results,
                   result, total_api_calls>>

Tasks(tier) == IF tier = "primary" THEN primary_tasks ELSE secondary_tasks

\* The tasks that have been started and are not done.
Running ==
    { p \in ({"primary"} \X DOMAIN primary_tasks)
              \cup ({"secondary"} \X DOMAIN secondary_tasks) :
        ~Tasks(p[1])[p[2]].done }

\* The task p returns r.
Finish(p, r) ==
    /\ IF p[1] = "primary"
       THEN /\ primary_tasks' =
                 [primary_tasks EXCEPT ![p[2]].done = TRUE, ![p[2]].result = r]
            /\ UNCHANGED secondary_tasks
       ELSE /\ secondary_tasks' =
                 [secondary_tasks EXCEPT ![p[2]].done = TRUE, ![p[2]].result = r]
            /\ UNCHANGED primary_tasks
    /\ finished' = Append(finished, Tasks(p[1])[p[2]].source_name)
    /\ UNCHANGED <<historyVars, envVars, overlapVars, filterVars, synthVars, pc,
                   local, requests, source_results, result, errors,
                   total_api_calls>>

\* fetch_source of a name that is not in AVAILABLE_TOOLS.
FetchUnknown ==
    /\ pc \in {"primary", "secondary"}
    /\ \E p \in Running :
         LET source_name == Tasks(p[1])[p[2]].source_name
         IN  /\ source_name \notin AVAILABLE_TOOLS
             /\ Finish(p, FailedResult(source_name, ToolNotFound(source_name)))

\* fetch_source of a tool that returns items.
FetchReturns ==
    /\ pc \in {"primary", "secondary"}
    /\ \E p \in Running :
         LET source_name == Tasks(p[1])[p[2]].source_name
         IN  /\ source_name \in AVAILABLE_TOOLS
             /\ \E items \in feeds[source_name] :
                  Finish(p, SourceResult(source_name, items))

\* fetch_source of a tool that raises.
FetchRaises ==
    /\ pc \in {"primary", "secondary"}
    /\ \E p \in Running :
         LET source_name == Tasks(p[1])[p[2]].source_name
         IN  /\ source_name \in AVAILABLE_TOOLS
             /\ Finish(p, FailedResult(source_name, FetchError(source_name)))

\* The return of collection_node with the locals loc.
CollectReturn(loc) ==
    /\ source_results' = loc.source_results
    /\ errors' = loc.errors
    /\ total_api_calls' = total_api_calls + loc.api_calls
    /\ local' = loc
    /\ pc' = "collected"

\* The first gather resumes: its results are merged, then the second gather
\* starts, or collection_node returns when there is no secondary source.
PrimaryGathered ==
    /\ pc = "primary"
    /\ gather_done(primary_tasks)
    /\ \E loc \in {merge(local, primary_tasks)} :
         \E secondary \in
              {secondary_list(sources_to_query, priority_sources)} :
           IF secondary # <<>>
           THEN /\ secondary_tasks' = start_tasks(secondary)
                /\ local' = loc
                /\ pc' = "secondary"
                /\ UNCHANGED <<source_results, errors, total_api_calls>>
           ELSE /\ CollectReturn(loc)
                /\ UNCHANGED secondary_tasks
    /\ UNCHANGED <<historyVars, envVars, overlapVars, filterVars, synthVars,
                   primary_tasks, requests, finished, result>>

\* The second gather resumes and collection_node returns.
SecondaryGathered ==
    /\ pc = "secondary"
    /\ gather_done(secondary_tasks)
    /\ CollectReturn(merge(local, secondary_tasks))
    /\ UNCHANGED <<historyVars, envVars, overlapVars, filterVars, synthVars,
                   primary_tasks, secondary_tasks, requests, finished, result>>

\* A fetch_source coroutine calls its tool, which enters safe_request.
RequestStart ==
    /\ pc \in {"primary", "secondary"}
    /\ \E p \in Running :
         /\ Tasks(p[1])[p[2]].source_name \in RequestTools
         /\ p \notin DOMAIN requests
         /\ requests' = (p :> NewRequest) @@ requests
    /\ UNCHANGED <<historyVars, envVars, overlapVars, filterVars, synthVars, pc,
                   primary_tasks, secondary_tasks, local, finished,
                   source_results, result, errors, total_api_calls>>

\* One pass of the loop of a safe_request.
RequestAttempt ==
    /\ \E p \in DOMAIN requests :
         /\ requests[p].at = "request"
         /\ \E outcome \in Outcomes :
              requests' = [requests EXCEPT ![p] = after_request(@, outcome)]
    /\ UNCHANGED <<historyVars, envVars, overlapVars, filterVars, synthVars, pc,
                   primary_tasks, secondary_tasks, local, finished,
                   source_results, result, errors, total_api_calls>>

\* A safe_request resumes after its asyncio.sleep.
RequestWakes ==
    /\ \E p \in DOMAIN requests :
         /\ requests[p].at = "sleep"
         /\ requests' = [requests EXCEPT ![p] = after_sleep(@)]
    /\ UNCHANGED <<historyVars, envVars, overlapVars, filterVars, synthVars, pc,
                   primary_tasks, secondary_tasks, local, finished,
                   source_results, result, errors, total_api_calls>>

\* safe_request has returned: the tool returns its list and fetch_source
\* wraps it in a SourceResult.
ToolReturns ==
    /\ pc \in {"primary", "secondary"}
    /\ \E p \in Running \cap DOMAIN requests :
         LET source_name == Tasks(p[1])[p[2]].source_name
         IN  /\ requests[p].at = "returned"
             /\ \E posts \in feeds[source_name] :
                  Finish(p, SourceResult(source_name,
                              fetch_reddit_subreddit(requests[p].response,
                                                     posts)))

\* filtering_node.
\* What run_tech_watch returns when an exception has left the graph.
ErrorResult == [kind |-> "error", text |-> <<"Erreur">>, completed |-> FALSE]

\* filtering_node.  It catches ImportError only around separate_new_and_seen:
\* when that call raises, the exception leaves the graph and run_tech_watch
\* returns its error text.
Filtering ==
    /\ pc = "collected"
    /\ IF load_raises(file)
       THEN /\ result' = ErrorResult
            /\ pc' = "returned"
            /\ UNCHANGED <<filterVars, cleanupRan, lastPass, file>>
       ELSE /\ \E r \in {filtering_node(source_results, max_items_per_source,
                                        file, now)} :
                  /\ filtered_items' = r.filtered_items
                  /\ new_items' = r.new_items
                  /\ seen_items' = r.seen_items
                  /\ deduplicated_count' = r.deduplicated_count
                  /\ cleanupRan' = r.cleaned
                  /\ lastPass' = IF r.cleaned THEN now ELSE lastPass
                  /\ file' = r.file
            /\ pc' = "filtered"
            /\ UNCHANGED result
    /\ UNCHANGED <<now, saveRaised, sentItems, sentAt, envVars, overlapVars,
                   collectVars, synthVars, source_results, errors,
                   total_api_calls>>

\* A list that holds the new error alone.
only_error(errs, error) == <<error>>

\* state.get("errors", []) + [error]
with_error(errs, error) == Append(errs, error)

\* A test that takes any list for data.
no_data_never(filtered) == FALSE

\* "if not filtered_items", the test of the early return of synthesis_node.
no_data(filtered) == filtered = <<>>

Providers == get_available_llm_providers(gemini_key, mistral_key)

\* synthesis_node up to its first call to a provider: the early return when
\* nothing was kept, the template when no provider is configured.
SynthesisStart ==
    /\ pc = "filtered"
    /\ IF no_data(filtered_items)
       THEN /\ synthesis' = NoDataText
            /\ pc' = "synthesized"
            /\ UNCHANGED <<errors, section_summaries, provider_idx>>
       ELSE IF Providers = <<>>
       THEN /\ synthesis' =
                 generate_fallback_synthesis(categorize(new_items), errors)
            /\ errors' = with_error(errors, NoLlmError)
            /\ section_summaries' = counts(categorize(new_items))
            /\ pc' = "synthesized"
            /\ UNCHANGED provider_idx
       ELSE /\ provider_idx' = 1
            /\ pc' = "calling"
            /\ UNCHANGED <<synthesis, errors, section_summaries>>
    /\ UNCHANGED <<historyVars, envVars, overlapVars, collectVars, filterVars, attempts,
                   llm_provider, source_results, result, total_api_calls>>

Attempt(provider, outcome, content) ==
    [provider |-> provider, outcome |-> outcome, content |-> content]

\* The provider under call answers: synthesis_node returns its content.
ProviderReturns ==
    /\ pc = "calling"
    /\ \E provider \in {Providers[provider_idx]} :
         /\ attempts' = Append(attempts,
                               Attempt(provider, "ok", LlmReply(provider)))
         /\ synthesis' = LlmReply(provider)
         /\ llm_provider' = provider
    /\ section_summaries' = counts(categorize(new_items))
    /\ total_api_calls' = total_api_calls + 1
    /\ pc' = "synthesized"
    /\ UNCHANGED <<historyVars, envVars, overlapVars, collectVars, filterVars, provider_idx,
                   source_results, result, errors>>

\* The provider under call raises: the loop goes on to the next provider, or
\* ends and the template is returned.
ProviderRaises ==
    /\ pc = "calling"
    /\ \E provider \in {Providers[provider_idx]} :
         /\ attempts' = Append(attempts, Attempt(provider, "raised", EmptyText))
         /\ IF provider_idx < Len(Providers)
            THEN /\ provider_idx' = provider_idx + 1
                 /\ UNCHANGED <<pc, synthesis, errors, section_summaries>>
            ELSE /\ synthesis' =
                      generate_fallback_synthesis(categorize(new_items), errors)
                 /\ errors' = with_error(errors, AllLlmFailed(provider))
                 /\ section_summaries' = counts(categorize(new_items))
                 /\ pc' = "synthesized"
                 /\ UNCHANGED provider_idx
    /\ UNCHANGED <<historyVars, envVars, overlapVars, collectVars, filterVars, llm_provider,
                   source_results, result, total_api_calls>>

\* The synthesis with the statistics footer output_node appends to it; the
\* line of errors is there when error_count is not 0.
Footer(text, stats, new_count, seen_count, api_calls, error_count) ==
    [body |-> text, stats |-> stats, new_count |-> new_count,
     seen_count |-> seen_count, api_calls |-> api_calls,
     error_count |-> error_count]

WithFooter ==
    Footer(synthesis, section_summaries, Len(new_items), Len(seen_items),
           total_api_calls, Len(errors))

\* What output_node does once mark_items_as_sent has been called: when it
\* raised, nothing but ImportError is caught, the exception leaves the graph
\* and run_tech_watch returns its error text.
output_result(text, raised) ==
    IF raised
    THEN ErrorResult
    ELSE [kind |-> "digest", text |-> text, completed |-> TRUE]

\* output_node and the return of run_tech_watch; save_ok is whether
\* mark_items_as_sent can load the file and save_history can write it.  result.text is the final
\* state["synthesis"].
Output ==
    /\ pc = "synthesized"
    /\ \E save_ok \in {ok \in BOOLEAN : ok => ~load_raises(file)} :
         /\ saveRaised' = ~save_ok
         /\ result' = output_result(WithFooter, ~save_ok)
         /\ IF save_ok
            THEN /\ file' = JsonFile(mark_items_as_sent(file, new_items, now))
                 /\ sentItems' = Range(new_items)
                 /\ sentAt' = now
            ELSE UNCHANGED <<file, sentItems, sentAt>>
    /\ pc' = "returned"
    /\ UNCHANGED <<now, cleanupRan, lastPass, envVars, overlapVars, collectVars, filterVars,
                   synthVars, source_results, errors, total_api_calls>>

\* The next run of the request starts from a fresh state.
NextRun ==
    /\ pc = "returned"
    /\ pc' = "planned"
    /\ source_results' = <<>>
    /\ filtered_items' = <<>>
    /\ new_items' = <<>>
    /\ seen_items' = <<>>
    /\ deduplicated_count' = 0
    /\ errors' = <<>>
    /\ total_api_calls' = 0
    /\ synthesis' = EmptyText
    /\ section_summaries' = NoCounts
    /\ llm_provider' = NoProvider
    /\ result' = NoResult
    /\ primary_tasks' = <<>>
    /\ secondary_tasks' = <<>>
    /\ local' = NoLocals
    /\ requests' = <<>>
    /\ finished' = <<>>
    /\ provider_idx' = 0
    /\ attempts' = <<>>
    /\ cleanupRan' = FALSE
    /\ saveRaised' = FALSE
    /\ UNCHANGED <<now, file, lastPass, sentItems, sentAt, envVars, overlapVars>>

Next ==
    \/ Tick
    \/ CollectStart
    \/ FetchReturns
    \/ PrimaryGathered
    \/ Filtering
    \/ SynthesisStart
    \/ ProviderReturns
    \/ Output
    \/ NextRun

Spec == Init /\ [][Next]_vars

\* --------------------------------------------- one run of run_tech_watch
\* What run_tech_watch returns when config.llm.has_llm is false.
NoLlmResult ==
    [kind |-> "error", text |-> <<"Erreur", "Aucun LLM configure">>,
     completed |-> FALSE]

\* run_tech_watch up to the call of the graph.
Start ==
    /\ pc = "start"
    /\ IF ~(gemini_key \/ mistral_key)
       THEN /\ result' = NoLlmResult
            /\ pc' = "returned"
       ELSE /\ pc' = "created"
            /\ UNCHANGED result
    /\ UNCHANGED <<historyVars, envVars, overlapVars, collectVars, filterVars, synthVars,
                   source_results, errors, total_api_calls>>

\* planning_node.
Planning ==
    /\ pc = "created"
    /\ \E plan \in planning_node(user_query, focus) :
         /\ sources_to_query' = plan.sources_to_query
         /\ priority_sources' = plan.priority_sources
         /\ secondary_sources' = plan.secondary_sources
         /\ focus' = plan.focus
    /\ pc' = "planned"
    /\ UNCHANGED <<historyVars, user_query, feeds, gemini_key, mistral_key,
                   max_items_per_source, overlapVars, collectVars, filterVars, synthVars,
                   source_results, result, errors, total_api_calls>>

\* Every tool has one item to return, the same for all of them.
PipelineFeeds == [s \in AVAILABLE_TOOLS |-> { <<Item(<<"u">>, <<"a">>, 0)>> }]

\* A query in which a keyword of keywords_web occurs.
WebQuery == <<"R", "e", "a", "c", "t", " ", "1", "9">>

\* One run, for the default query and for WebQuery with a focus that has few
\* sources, with any provider keys and with a history file in any condition.
PipelineInit ==
    /\ now = 1
    /\ file \in {MissingFile, TruncatedFile, MalformedFile, StoreWithOneItem}
    /\ pc = "start"
    /\ max_items_per_source = DEFAULT_MAX_ITEMS
    /\ user_query \in {DefaultQuery, WebQuery}
    /\ focus \in {"security", "devops"}
    /\ sources_to_query = <<>>
    /\ priority_sources = <<>>
    /\ secondary_sources = secondary_list(sources_to_query, priority_sources)
    /\ feeds = PipelineFeeds
    /\ gemini_key \in BOOLEAN
    /\ mistral_key \in BOOLEAN
    /\ FreshState
    /\ lastPass = NoPass
    /\ sentItems = {}
    /\ sentAt = 0

NextPipeline ==
    \/ Start
    \/ Planning
    \/ CollectStart
    \/ FetchReturns
    \/ FetchRaises
    \/ PrimaryGathered
    \/ SecondaryGathered
    \/ Filtering
    \/ SynthesisStart
    \/ ProviderReturns
    \/ ProviderRaises
    \/ Output

SpecPipeline == PipelineInit /\ [][NextPipeline]_vars

\* A query in which a keyword of keywords_ai occurs.
AiQuery == <<"L", "L", "M", " ", "n", "e", "w", "s">>

\* ------------------------------------------------ planning_node on its own
\* The values of focus a request can carry: those of FOCUS_SOURCE_MAPPING
\* and one it does not list.
AskedFocus ==
    {"general", "ai", "devops", "web", "security", "tools", "all", "other"}

\* planning_node on the state of create_initial_state, for a query without
\* keyword and for queries with a keyword of keywords_web and of keywords_ai.
PlanInit ==
    /\ now = 0
    /\ file = MissingFile
    /\ pc = "created"
    /\ max_items_per_source = DEFAULT_MAX_ITEMS
    /\ user_query \in {DefaultQuery, WebQuery, AiQuery}
    /\ focus \in AskedFocus
    /\ sources_to_query = <<>>
    /\ priority_sources = <<>>
    /\ secondary_sources = <<>>
    /\ feeds = NoFeeds
    /\ gemini_key = TRUE
    /\ mistral_key = FALSE
    /\ FreshState
    /\ lastPass = NoPass
    /\ sentItems = {}
    /\ sentAt = 0

SpecPlan == PlanInit /\ [][Planning]_vars

\* ------------------------------------- two requests on the same event loop
\* The nodes of the second run that touch the history file.  A node that
\* does not await runs from its first line to its return without any other
\* coroutine running: filtering_node and output_node are such nodes.

\* filtering_node of the second run.
OtherFiltering ==
    /\ other.pc = "collected"
    /\ ~load_raises(file)
    /\ \E r \in {filtering_node(other.source_results, max_items_per_source,
                                file, now)} :
         other' = [other EXCEPT !.pc = "filtered", !.new_items = r.new_items]
    /\ UNCHANGED <<historyVars, envVars, collectVars, filterVars, synthVars,
                   pc, source_results, result, errors, total_api_calls>>

\* synthesis_node of the second run, which awaits its provider.
OtherSynthesis ==
    /\ other.pc = "filtered"
    /\ other' = [other EXCEPT !.pc = "synthesized"]
    /\ UNCHANGED <<historyVars, envVars, collectVars, filterVars, synthVars,
                   pc, source_results, result, errors, total_api_calls>>

\* output_node of the second run; save_ok as in Output.
OtherOutput ==
    /\ other.pc = "synthesized"
    /\ \E save_ok \in {ok \in BOOLEAN : ok => ~load_raises(file)} :
         /\ other' = [other EXCEPT !.pc = "returned", !.committed = save_ok]
         /\ IF save_ok
            THEN file' = JsonFile(mark_items_as_sent(file, other.new_items,
                                                     now))
            ELSE UNCHANGED file
    /\ UNCHANGED <<now, cleanupRan, saveRaised, lastPass, sentItems, sentAt,
                   envVars, collectVars, filterVars, synthVars, pc,
                   source_results, result, errors, total_api_calls>>

\* Two runs that have both collected their items, a day after a run that
\* may have committed one item.
OverlapInit ==
    /\ now = 1
    /\ file \in {MissingFile, StoreWithOneItem}
    /\ pc = "collected"
    /\ max_items_per_source = DEFAULT_MAX_ITEMS
    /\ user_query = DefaultQuery
    /\ focus = "general"
    /\ sources_to_query = <<"hackernews">>
    /\ priority_sources = <<"hackernews">>
    /\ secondary_sources = <<>>
    /\ feeds = NoFeeds
    /\ gemini_key = TRUE
    /\ mistral_key = FALSE
    /\ source_results \in
         { <<SourceResult("hackernews", l)>> : l \in HistoryFeeds }
    /\ \E l \in HistoryFeeds :
         other = [pc |-> "collected",
                  source_results |-> <<SourceResult("hackernews", l)>>,
                  new_items |-> <<>>, committed |-> FALSE]
    /\ filtered_items = <<>>
    /\ new_items = <<>>
    /\ seen_items = <<>>
    /\ deduplicated_count = 0
    /\ errors = <<>>
    /\ total_api_calls = 1
    /\ synthesis = EmptyText
    /\ section_summaries = NoCounts
    /\ llm_provider = NoProvider
    /\ result = NoResult
    /\ primary_tasks = <<>>
    /\ secondary_tasks = <<>>
    /\ local = NoLocals
    /\ requests = <<>>
    /\ finished = <<>>
    /\ provider_idx = 0
    /\ attempts = <<>>
    /\ cleanupRan = FALSE
    /\ saveRaised = FALSE
    /\ lastPass = NoPass
    /\ sentItems = {}
    /\ sentAt = 0

NextOverlap ==
    \/ Filtering
    \/ SynthesisStart
    \/ ProviderReturns
    \/ Output
    \/ OtherFiltering
    \/ OtherSynthesis
    \/ OtherOutput

SpecOverlap == OverlapInit /\ [][NextOverlap]_vars

\* --------------------------------------------- a save that is interrupted
\* The process is stopped inside save_history, after open(HISTORY_FILE, "w")
\* has emptied the file and before json.dump has written all of it; the
\* request gets no answer.
OutputInterrupted ==
    /\ pc = "synthesized"
    /\ ~load_raises(file)
    /\ file' = TruncatedFile
    /\ pc' = "returned"
    /\ UNCHANGED <<now, cleanupRan, saveRaised, lastPass, sentItems, sentAt,
                   envVars, overlapVars, collectVars, filterVars, synthVars,
                   source_results, result, errors, total_api_calls>>

NextSave == Next \/ OutputInterrupted

SpecSave == Init /\ [][NextSave]_vars

\* --------------------------------- collection_node down to safe_request
\* collection_node on what planning_node plans for AiQuery: github_trending,
\* hackernews and reddit_ml, all in the first gather; each tool has one post
\* to read in a response.
RequestInit ==
    /\ now = 0
    /\ file = MissingFile
    /\ pc = "planned"
    /\ max_items_per_source = DEFAULT_MAX_ITEMS
    /\ user_query = AiQuery
    /\ focus = "ai"
    /\ \E plan \in planning_node(AiQuery, "general") :
         /\ sources_to_query = plan.sources_to_query
         /\ priority_sources = plan.priority_sources
         /\ secondary_sources = plan.secondary_sources
    /\ feeds = [s \in AVAILABLE_TOOLS |-> { <<Item(<<s>>, <<s>>, 0)>> }]
    /\ gemini_key = TRUE
    /\ mistral_key = FALSE
    /\ FreshState
    /\ lastPass = NoPass
    /\ sentItems = {}
    /\ sentAt = 0

NextRequest ==
    \/ CollectStart
    \/ RequestStart
    \/ RequestAttempt
    \/ RequestWakes
    \/ ToolReturns
    \/ PrimaryGathered

SpecRequest == RequestInit /\ [][NextRequest]_vars

\* ------------------------------------------------ collection_node on its own
CollectionIds == {"hackernews", "lobsters", "producthunt", "tech_news_ai"}

\* priority_sources: none; one; two, one of them not always asked for; two, one of
\* them unknown.
PriorityChoices ==
    { <<>>, <<"hackernews">>, <<"lobsters", "hackernews">>,
      <<"tech_news_ai", "producthunt">> }

CollectionFeeds == { <<Item(<<"u">>, <<"a">>, 0)>> }

CollectionInit ==
    /\ now = 0
    /\ file = MissingFile
    /\ pc = "planned"
    /\ max_items_per_source = DEFAULT_MAX_ITEMS
    /\ user_query = DefaultQuery
    /\ focus = "general"
    /\ sources_to_query \in ListsOver(CollectionIds, MaxSources)
    /\ priority_sources \in PriorityChoices
    /\ secondary_sources = secondary_list(sources_to_query, priority_sources)
    /\ feeds = [s \in AVAILABLE_TOOLS |-> CollectionFeeds]
    /\ gemini_key = TRUE
    /\ mistral_key = FALSE
    /\ FreshState
    /\ lastPass = NoPass
    /\ sentItems = {}
    /\ sentAt = 0

NextCollection ==
    \/ CollectStart
    \/ FetchUnknown
    \/ FetchReturns
    \/ FetchRaises
    \/ PrimaryGathered
    \/ SecondaryGathered

SpecCollection == CollectionInit /\ [][NextCollection]_vars

\* ------------------------------------------------ filtering_node on its own
Pad(n) == [i \in 1..n |-> "p"]

\* Raw items for filtering_node: a plain one; one with its URL and another
\* title; one with its title in another case and with trailing whitespace,
\* under another URL; two whose titles agree on the first TITLE_HASH_CHARS
\* characters only; a promotional one; one without URL.
FilterPool ==
    { Item(<<"a">>, <<"T", "o", "o", "l">>, 100),
      Item(<<"a">>, <<"O", "t", "h", "e", "r">>, 100),
      Item(<<"b">>, <<"T", "O", "O", "L", " ">>, 100),
      Item(<<"c">>, Pad(TITLE_HASH_CHARS) \o <<"x">>, 100),
      Item(<<"d">>, Pad(TITLE_HASH_CHARS) \o <<"y">>, 100),
      Item(<<"e">>, <<"S", "p", "o", "n", "s", "o", "r", "e", "d", ":", " ", "B", "u", "y", " ", "N", "o", "w">>, 100),
      Item(<<>>, <<"N", "e", "w", " ", "c", "o", "m", "p", "i", "l", "e", "r", " ", "r", "e", "l", "e", "a", "s", "e", "d">>, 100) }

\* Every list of at most MaxRaw raw items, cut in two at every place: what
\* hackernews returned, then what producthunt returned.
FilterSources ==
    UNION { { <<SourceResult("hackernews", SubSeq(l, 1, k)),
                SourceResult("producthunt", SubSeq(l, k + 1, Len(l)))>> :
              k \in 0..Len(l) } :
            l \in ListsOver(FilterPool, MaxRaw) }

\* A store a first run has left: the plain item committed on day 0.
StoreAfterFirstRun ==
    JsonFile(mark_items_as_sent(MissingFile,
                                <<Item(<<"a">>, <<"T", "o", "o", "l">>, 100)>>, 0))

FilterInit ==
    /\ now = 1
    /\ file \in {MissingFile, StoreAfterFirstRun}
    /\ pc = "collected"
    /\ max_items_per_source \in {0, DEFAULT_MAX_ITEMS}
    /\ user_query = DefaultQuery
    /\ focus = "general"
    /\ sources_to_query = <<"hackernews", "producthunt">>
    /\ priority_sources = <<"hackernews">>
    /\ secondary_sources = secondary_list(sources_to_query, priority_sources)
    /\ feeds = NoFeeds
    /\ gemini_key = TRUE
    /\ mistral_key = FALSE
    /\ source_results \in FilterSources
    /\ filtered_items = <<>>
    /\ new_items = <<>>
    /\ seen_items = <<>>
    /\ deduplicated_count = 0
    /\ errors = <<>>
    /\ total_api_calls = 2
    /\ synthesis = EmptyText
    /\ section_summaries = NoCounts
    /\ llm_provider = NoProvider
    /\ result = NoResult
    /\ primary_tasks = <<>>
    /\ secondary_tasks = <<>>
    /\ local = NoLocals
    /\ requests = <<>>
    /\ finished = <<>>
    /\ other = NoOther
    /\ provider_idx = 0
    /\ attempts = <<>>
    /\ cleanupRan = FALSE
    /\ saveRaised = FALSE
    /\ lastPass = NoPass
    /\ sentItems = {}
    /\ sentAt = 0

SpecFilter == FilterInit /\ [][Filtering]_vars

\* ------------------------------------------ the ranking of filtering_node
RankNames == <<"a", "b", "c", "d", "e", "f", "g", "h">>

\* Engagement counts: none, the value at which compute_score caps the
\* engagement, and a value above it.
RankScores == {0, 1000, 2000}

\* MaxRank items of hackernews that differ in URL and title, with every
\* assignment of engagement counts to them.
RankSources ==
    { <<SourceResult("hackernews",
                     [k \in 1..MaxRank |->
                        Item(<<RankNames[k]>>, <<RankNames[k]>>, f[k])])>> :
        f \in [1..MaxRank -> RankScores] }

RankInit ==
    /\ now = 0
    /\ file = MissingFile
    /\ pc = "collected"
    /\ max_items_per_source \in {0, 1, DEFAULT_MAX_ITEMS}
    /\ user_query = DefaultQuery
    /\ focus = "general"
    /\ sources_to_query = <<"hackernews">>
    /\ priority_sources = <<"hackernews">>
    /\ secondary_sources = secondary_list(sources_to_query, priority_sources)
    /\ feeds = NoFeeds
    /\ gemini_key = TRUE
    /\ mistral_key = FALSE
    /\ source_results \in RankSources
    /\ filtered_items = <<>>
    /\ new_items = <<>>
    /\ seen_items = <<>>
    /\ deduplicated_count = 0
    /\ errors = <<>>
    /\ total_api_calls = 1
    /\ synthesis = EmptyText
    /\ section_summaries = NoCounts
    /\ llm_provider = NoProvider
    /\ result = NoResult
    /\ primary_tasks = <<>>
    /\ secondary_tasks = <<>>
    /\ local = NoLocals
    /\ requests = <<>>
    /\ finished = <<>>
    /\ other = NoOther
    /\ provider_idx = 0
    /\ attempts = <<>>
    /\ cleanupRan = FALSE
    /\ saveRaised = FALSE
    /\ lastPass = NoPass
    /\ sentItems = {}
    /\ sentAt = 0

SpecRank == RankInit /\ [][Filtering]_vars

\* ------------------------------- filtering_node on a store in any condition
StoreInit ==
    /\ now \in {0, 1}
    /\ file \in {MissingFile, UnreadableFile, TruncatedFile, UndecodableFile,
                  MalformedFile, StoreWithOneItem}
    /\ pc = "collected"
    /\ max_items_per_source = DEFAULT_MAX_ITEMS
    /\ user_query = DefaultQuery
    /\ focus = "general"
    /\ sources_to_query = <<"hackernews">>
    /\ priority_sources = <<"hackernews">>
    /\ secondary_sources = secondary_list(sources_to_query, priority_sources)
    /\ feeds = NoFeeds
    /\ gemini_key = TRUE
    /\ mistral_key = FALSE
    /\ source_results \in
         { <<SourceResult("hackernews", l)>> : l \in HistoryFeeds }
    /\ filtered_items = <<>>
    /\ new_items = <<>>
    /\ seen_items = <<>>
    /\ deduplicated_count = 0
    /\ errors = <<>>
    /\ total_api_calls = 1
    /\ synthesis = EmptyText
    /\ section_summaries = NoCounts
    /\ llm_provider = NoProvider
    /\ result = NoResult
    /\ primary_tasks = <<>>
    /\ secondary_tasks = <<>>
    /\ local = NoLocals
    /\ requests = <<>>
    /\ finished = <<>>
    /\ other = NoOther
    /\ provider_idx = 0
    /\ attempts = <<>>
    /\ cleanupRan = FALSE
    /\ saveRaised = FALSE
    /\ lastPass = NoPass
    /\ sentItems = {}
    /\ sentAt = 0

SpecStore == StoreInit /\ [][Filtering]_vars

\* ------------------------------------- filtering_node on many seen items
MaxRecall == 11

RecallNames ==
    <<"a", "b", "c", "d", "e", "f", "g", "h", "i", "j", "k", "l", "m">>

\* The first n of the items hackernews can return, all different in URL and
\* title, the later ones with more engagement.
RecallItems(n) ==
    [k \in 1..n |-> Item(<<"u", RecallNames[k]>>, <<"t", RecallNames[k]>>,
                         100 * k)]

\* filtering_node a day after a run that committed the first k items, on
\* the first n items.
RecallInit ==
    /\ now = 1
    /\ \E k \in 0..MaxRecall :
         file = JsonFile(mark_items_as_sent(MissingFile, RecallItems(k), 0))
    /\ pc = "collected"
    /\ max_items_per_source = DEFAULT_MAX_ITEMS
    /\ user_query = DefaultQuery
    /\ focus = "general"
    /\ sources_to_query = <<"hackernews">>
    /\ priority_sources = <<"hackernews">>
    /\ secondary_sources = secondary_list(sources_to_query, priority_sources)
    /\ feeds = NoFeeds
    /\ gemini_key = TRUE
    /\ mistral_key = FALSE
    /\ \E n \in 0..MaxRecall :
         source_results = <<SourceResult("hackernews", RecallItems(n))>>
    /\ filtered_items = <<>>
    /\ new_items = <<>>
    /\ seen_items = <<>>
    /\ deduplicated_count = 0
    /\ errors = <<>>
    /\ total_api_calls = 1
    /\ synthesis = EmptyText
    /\ section_summaries = NoCounts
    /\ llm_provider = NoProvider
    /\ result = NoResult
    /\ primary_tasks = <<>>
    /\ secondary_tasks = <<>>
    /\ local = NoLocals
    /\ requests = <<>>
    /\ finished = <<>>
    /\ other = NoOther
    /\ provider_idx = 0
    /\ attempts = <<>>
    /\ cleanupRan = FALSE
    /\ saveRaised = FALSE
    /\ lastPass = NoPass
    /\ sentItems = {}
    /\ sentAt = 0

SpecRecall == RecallInit /\ [][Filtering]_vars

\* ------------------------------------------------- synthesis_node on its own
Kept(url, title, source_name) ==
    [Item(url, title, 100) EXCEPT !._source = source_name]

\* What filtering_node kept: a tool, an article, a paper.
DigestPool ==
    { Kept(<<"g">>, <<"r", "e", "p", "o">>, "github_trending"),
      Kept(<<"h">>, <<"p", "o", "s", "t">>, "hackernews"),
      Kept(<<"x">>, <<"p", "a", "p", "e", "r">>, "arxiv_ai") }

DigestInputs == { m \in ListsOver(DigestPool, MaxDigest) : NoDup(m) }

SynthesisInit ==
    /\ now = 0
    /\ file = MissingFile
    /\ pc = "filtered"
    /\ max_items_per_source = DEFAULT_MAX_ITEMS
    /\ user_query = DefaultQuery
    /\ focus = "general"
    /\ sources_to_query = <<"hackernews">>
    /\ priority_sources = <<"hackernews">>
    /\ secondary_sources = secondary_list(sources_to_query, priority_sources)
    /\ feeds = NoFeeds
    /\ gemini_key \in BOOLEAN
    /\ mistral_key \in BOOLEAN
    /\ source_results = <<>>
    /\ filtered_items \in DigestInputs
    /\ new_items = filtered_items
    /\ seen_items = <<>>
    /\ deduplicated_count = 0
    /\ errors \in { <<>>, <<FetchError("hackernews")>> }
    /\ total_api_calls = 1
    /\ synthesis = EmptyText
    /\ section_summaries = NoCounts
    /\ llm_provider = NoProvider
    /\ result = NoResult
    /\ primary_tasks = <<>>
    /\ secondary_tasks = <<>>
    /\ local = NoLocals
    /\ requests = <<>>
    /\ finished = <<>>
    /\ other = NoOther
    /\ provider_idx = 0
    /\ attempts = <<>>
    /\ cleanupRan = FALSE
    /\ saveRaised = FALSE
    /\ lastPass = NoPass
    /\ sentItems = {}
    /\ sentAt = 0

NextSynthesis == SynthesisStart \/ ProviderReturns \/ ProviderRaises

SpecSynthesis == SynthesisInit /\ [][NextSynthesis]_vars

\* ================================================================ claims
\* Helpers of the claims about the history store.
Persisted == load_history(file, now).items

\* No other item of the classified list has the identity hash h.
HashOnce(h) ==
    Cardinality({ j \in DOMAIN filtered_items :
                    get_item_hash(filtered_items[j]) = h }) = 1

Unmarked(item) == [item EXCEPT !._times_seen = 0]

ClassifiedSeen(item) == \E j \in DOMAIN seen_items : Unmarked(seen_items[j]) = item

ClassifiedNew(item) == item \in Range(new_items)

Expired(h) ==
    /\ h \in DOMAIN Persisted
    /\ now - Persisted[h].first_seen > HISTORY_RETENTION_DAYS

\* C1: after the dedup step no two kept items have the same URL and no two
\* have titles that are equal once lower-cased, stripped and cut to
\* TITLE_HASH_CHARS characters; the same holds of filtered_items.
NormTitle(item) == Take(strip(lower(item.title)), TITLE_HASH_CHARS)

Distinct(l) ==
    \A i, j \in DOMAIN l :
      i # j => /\ l[i].url # l[j].url
               /\ NormTitle(l[i]) # NormTitle(l[j])

C1_DedupDistinct ==
    /\ Distinct(dedup(all_items(source_results)))
    /\ pc = "filtered" => Distinct(filtered_items)

\* Two entries with one URL, or with titles that differ by case and trailing
\* whitespace only, were collected, and one of them was kept.
C1_Witness ==
    /\ pc = "filtered"
    /\ filtered_items # <<>>
    /\ LET all == all_items(source_results)
       IN  /\ \E i, j \in DOMAIN all :
                i # j /\ all[i].url = all[j].url /\ all[i].url # <<>>
           /\ \E i, j \in DOMAIN all :
                /\ i # j
                /\ all[i].title # all[j].title
                /\ NormTitle(all[i]) = NormTitle(all[j])

\* C2: an item given to mark_items_as_sent at the end of the previous run and
\* classified again before HISTORY_RETENTION_DAYS have passed since then is in
\* the seen list, not in the new list, and its _times_seen is the stored
\* counter plus one.  Stated for the items whose identity hash no other item
\* of the call shares.
C2_RoundTripSeen ==
    pc = "filtered" =>
      \A i \in DOMAIN filtered_items :
        LET item == Unmarked(filtered_items[i])
            h == get_item_hash(item)
        IN  ( /\ HashOnce(h)
              /\ item \in sentItems
              /\ now - sentAt < HISTORY_RETENTION_DAYS )
            => /\ ~ClassifiedNew(item)
               /\ h \in DOMAIN Persisted
               /\ \E j \in DOMAIN seen_items :
                    /\ Unmarked(seen_items[j]) = item
                    /\ seen_items[j]._times_seen = Persisted[h].times_seen + 1

\* C3: a completed run (classify, then a commit that was saved) adds one to
\* the persisted times_seen of every item it classified as seen and sets the
\* persisted last_seen to the time of the run.
C3_PersistedCounterGrows ==
    [][ ( pc = "synthesized" /\ pc' = "returned" /\ ~saveRaised' ) =>
          \A i \in DOMAIN seen_items :
            LET h == get_item_hash(seen_items[i])
            IN  HashOnce(h) =>
                  /\ h \in DOMAIN file'.data.items
                  /\ file'.data.items[h].times_seen
                       = file.data.items[h].times_seen + 1
                  /\ file'.data.items[h].last_seen = now ]_vars

\* C4: after a completed run whose classify ran the cleanup pass, no
\* persisted entry has a first_seen older than HISTORY_RETENTION_DAYS.
C4_NoExpiredEntryPersisted ==
    ( pc = "returned" /\ ~saveRaised /\ cleanupRan ) =>
      \A h \in DOMAIN Persisted :
        now - Persisted[h].first_seen <= HISTORY_RETENTION_DAYS

\* C5: an item whose stored entry has a first_seen older than
\* HISTORY_RETENTION_DAYS is classified as new and not as seen.
C5_ExpiredIsNew ==
    pc = "filtered" =>
      \A i \in DOMAIN filtered_items :
        Expired(get_item_hash(filtered_items[i])) =>
          /\ ClassifiedNew(filtered_items[i])
          /\ ~ClassifiedSeen(Unmarked(filtered_items[i]))

C5_Witness ==
    /\ pc = "filtered"
    /\ \E i \in DOMAIN filtered_items :
         /\ Expired(get_item_hash(filtered_items[i]))
         /\ ClassifiedNew(filtered_items[i])

\* C6: a classify call runs the cleanup pass only when no pass ran less than
\* CLEANUP_INTERVAL_DAYS before it.
C6_CleanupOncePerDay ==
    [][ ( pc = "collected" /\ pc' = "filtered" /\ cleanupRan' ) =>
          ( lastPass = NoPass \/ now - lastPass >= CLEANUP_INTERVAL_DAYS ) ]_vars

\* C8: when the commit of output_node fails, the run still returns the digest
\* with its statistics footer and the completion flag.
C8_DigestDespiteCommitFailure ==
    ( pc = "returned" /\ saveRaised ) =>
      /\ result.kind = "digest"
      /\ result.text = WithFooter
      /\ result.completed

\* C7: synthesis_node calls the configured providers in the order gemini then
\* mistral, each at most once and none after one has answered; the synthesis
\* is the content of the first one that answered, and the steps in which a
\* provider raised before another is tried, or in which a provider answered,
\* leave the error list as it was; when every configured provider raised, all
\* of them were tried and the synthesis is the template with the degraded-mode
\* marker.
LastAttempt == attempts[Len(attempts)]

Configured ==
    (IF gemini_key THEN {"gemini"} ELSE {}) \cup
    (IF mistral_key THEN {"mistral"} ELSE {})

C7_Chain ==
    /\ \A i \in DOMAIN attempts : attempts[i].provider \in Configured
    /\ \A i, j \in DOMAIN attempts :
         i < j => /\ attempts[i].provider = "gemini"
                  /\ attempts[j].provider = "mistral"
    /\ ( attempts # <<>> /\ gemini_key ) => attempts[1].provider = "gemini"
    /\ \A i \in DOMAIN attempts :
         i < Len(attempts) => attempts[i].outcome = "raised"
    /\ ( pc = "synthesized" /\ attempts # <<>> ) =>
         IF LastAttempt.outcome = "ok"
         THEN synthesis = LastAttempt.content
         ELSE /\ { attempts[i].provider : i \in DOMAIN attempts } = Configured
              /\ synthesis.kind = "template"
              /\ \E k \in DOMAIN synthesis.lines :
                   synthesis.lines[k].tag = DegradedMarker

C7_FallbackChain ==
    /\ []C7_Chain
    /\ [][ ( /\ Len(attempts') > Len(attempts)
             /\ ( pc' = "calling" \/ attempts'[Len(attempts')].outcome = "ok" ) )
           => errors' = errors ]_vars

\* gemini raised, mistral answered, and the synthesis is what mistral said.
C7_Witness ==
    /\ pc = "synthesized"
    /\ Len(attempts) = 2
    /\ attempts[1] = Attempt("gemini", "raised", EmptyText)
    /\ attempts[2] = Attempt("mistral", "ok", LlmReply("mistral"))
    /\ synthesis = LlmReply("mistral")

\* C9: collection_node always gets to its return; the mapping it returns has
\* one result for each name of sources_to_query and for no other name; a name
\* that is not in AVAILABLE_TOOLS has a result without items and with an
\* error, and the result of every other name is what its fetch gave, items or
\* the error of a tool that raised.
Names(results) == { results[i].source_name : i \in DOMAIN results }

Fetched(r) ==
    \E tier \in {"primary", "secondary"} :
      \E i \in DOMAIN Tasks(tier) :
        /\ Tasks(tier)[i].done
        /\ Tasks(tier)[i].result = r

C9_OneResultPerSource ==
    /\ pc \in {"planned", "primary", "secondary"} => ENABLED NextCollection
    /\ pc = "collected" =>
         /\ Names(source_results) = Range(sources_to_query)
         /\ \A i, j \in DOMAIN source_results :
              i # j => source_results[i].source_name
                         # source_results[j].source_name
         /\ \A i \in DOMAIN source_results :
              LET r == source_results[i]
              IN  /\ Fetched(r)
                  /\ IF r.source_name \in AVAILABLE_TOOLS
                     THEN r.error # NoError =>
                            /\ r.error = FetchError(r.source_name)
                            /\ r.items = <<>>
                     ELSE /\ r.items = <<>>
                          /\ r.error = ToolNotFound(r.source_name)

\* An unknown name, a tool that raised and a tool that returned items, in one
\* returned mapping.
C9_Witness ==
    /\ pc = "collected"
    /\ \E i \in DOMAIN source_results :
         source_results[i].source_name \notin AVAILABLE_TOOLS
    /\ \E i \in DOMAIN source_results :
         source_results[i].error = FetchError(source_results[i].source_name)
    /\ \E i \in DOMAIN source_results : source_results[i].items # <<>>

\* C10: whenever a fetch of the second gather has been started, every fetch of
\* the first gather is done.
C10_SecondaryAfterPrimary ==
    secondary_tasks # <<>> =>
      \A j \in DOMAIN primary_tasks : primary_tasks[j].done

\* Two primary fetches, one of which failed, are done, and a secondary fetch
\* is under way.
C10_Witness ==
    /\ pc = "secondary"
    /\ Len(primary_tasks) >= 2
    /\ \E j \in DOMAIN primary_tasks :
         primary_tasks[j].result.error
           = FetchError(primary_tasks[j].source_name)
    /\ \E i \in DOMAIN secondary_tasks : ~secondary_tasks[i].done

\* C11: when collection_node has returned on a fresh run that queried distinct
\* source names, the error list has one entry naming each name whose fetch
\* gave an error (a tool that raised, a name that is not in AVAILABLE_TOOLS),
\* no entry naming a name whose fetch returned items, no entry naming anything
\* else, and total_api_calls is the number of names queried.
FetchFailed(source_name) ==
    \E tier \in {"primary", "secondary"} :
      \E i \in DOMAIN Tasks(tier) :
        /\ Tasks(tier)[i].source_name = source_name
        /\ Tasks(tier)[i].result.error # NoError

ErrorsNaming(source_name) ==
    { k \in DOMAIN errors : errors[k][2] = source_name }

C11_ErrorsAndCalls ==
    ( pc = "collected" /\ NoDup(sources_to_query) /\ sources_to_query # <<>> ) =>
      /\ \A k \in DOMAIN sources_to_query :
           Cardinality(ErrorsNaming(sources_to_query[k]))
             = IF FetchFailed(sources_to_query[k]) THEN 1 ELSE 0
      /\ \A k \in DOMAIN errors : errors[k][2] \in Range(sources_to_query)
      /\ total_api_calls = Len(sources_to_query)

\* Three names were queried, the fetch of one raised and the two others
\* returned items: one error, three calls.
C11_Witness ==
    /\ pc = "collected"
    /\ Len(sources_to_query) = 3
    /\ NoDup(sources_to_query)
    /\ Len(errors) = 1
    /\ errors[1] = FetchError(errors[1][2])
    /\ total_api_calls = 3
    /\ \A i \in DOMAIN source_results :
         source_results[i].error = NoError => source_results[i].items # <<>>

\* C12: of two kept items of one source that differ in URL, title and
\* engagement count only, the one with the higher engagement count is not
\* behind the other in filtered_items.
SameButEngagement(x, y) ==
    /\ x._source = y._source
    /\ x.num_comments = y.num_comments
    /\ x.described = y.described
    /\ x.score # y.score

C12_HigherEngagementNoLower ==
    pc = "filtered" =>
      \A i, j \in DOMAIN filtered_items :
        ( /\ SameButEngagement(filtered_items[i], filtered_items[j])
          /\ filtered_items[i].score > filtered_items[j].score ) => i < j

\* C13: filtered_items has at most MAX_TOTAL_FACTOR times max_items_per_source
\* entries, and no item that survived dedup and the promotional filter but is
\* not in filtered_items scores strictly more than an item that is in it.
Survivors == scored(SelectSeq(dedup(all_items(source_results)), not_promo))

Dropped ==
    { k \in DOMAIN Survivors :
        \A i \in DOMAIN filtered_items :
          Unmarked(filtered_items[i]) # Survivors[k] }

C13_CapKeepsTop ==
    pc = "filtered" =>
      /\ Len(filtered_items) <= MAX_TOTAL_FACTOR * max_items_per_source
      /\ \A k \in Dropped :
           \A i \in DOMAIN filtered_items :
             Survivors[k]._relevance_score <= filtered_items[i]._relevance_score

\* More items than the cap survived, the cap cut some of them, and the items
\* kept do not all score the same as the items cut.
C13_Witness ==
    /\ pc = "filtered"
    /\ max_items_per_source = 1
    /\ Len(filtered_items) = MAX_TOTAL_FACTOR
    /\ Dropped # {}
    /\ \E k \in Dropped :
         \E i \in DOMAIN filtered_items :
           Survivors[k]._relevance_score < filtered_items[i]._relevance_score

\* C14: no item of filtered_items has a lower-cased title that contains one of
\* promo_keywords; and when the cap cuts nothing, every item without such a
\* keyword that dedup kept is in filtered_items.
HasMarker(item) ==
    \E title \in {lower(item.title)} :
      \E kw \in promo_keywords : Contains(title, kw)

InFiltered(item) ==
    \E i \in DOMAIN filtered_items :
      /\ filtered_items[i].url = item.url
      /\ filtered_items[i].title = item.title

AfterDedup == dedup(all_items(source_results))

CapCutsNothing ==
    Len(AfterDedup) <= MAX_TOTAL_FACTOR * max_items_per_source

C14_NoPromotionalItem ==
    pc = "filtered" =>
      /\ \A i \in DOMAIN filtered_items : ~HasMarker(filtered_items[i])
      /\ CapCutsNothing =>
           \E after \in {AfterDedup} :
             \A k \in DOMAIN after :
               ~HasMarker(after[k]) => InFiltered(after[k])

\* An item with a marker and an item without one both passed dedup; the
\* second is in filtered_items.
C14_Witness ==
    /\ pc = "filtered"
    /\ CapCutsNothing
    /\ \E k \in DOMAIN AfterDedup : HasMarker(AfterDedup[k])
    /\ \E k \in DOMAIN AfterDedup :
         ~HasMarker(AfterDedup[k]) /\ InFiltered(AfterDedup[k])

\* C15: the history file changes only in the step of output_node, which
\* comes after synthesis_node has set the synthesis; every other step of a
\* run, that of filtering_node with its separate_new_and_seen included,
\* leaves the file as it was.
C15_OnlyCommitWrites ==
    [][ file' # file =>
          /\ pc = "synthesized"
          /\ pc' = "returned"
          /\ synthesis # EmptyText
          /\ ~saveRaised' ]_vars

\* separate_new_and_seen has run its cleanup pass and has found an item
\* among the stored ones, and the file still holds the expired entry.
C15_Witness ==
    /\ pc = "filtered"
    /\ cleanupRan
    /\ seen_items # <<>>
    /\ \E h \in DOMAIN Persisted : Expired(h)

\* C16: when the history file is missing, unreadable or corrupt,
\* filtering_node completes with every kept item as new and no seen item.
C16_BadStoreAllNew ==
    [][ ( pc = "collected" /\ file.kind # "json" ) =>
          /\ pc' = "filtered"
          /\ new_items' = filtered_items'
          /\ seen_items' = <<>>
          /\ result' = NoResult ]_vars

\* C17: a run with no provider key set returns a digest made of the template
\* with the degraded-mode marker, not an error text.
C17_NoProviderDegradedDigest ==
    ( pc = "returned" /\ ~gemini_key /\ ~mistral_key /\ ~saveRaised
      /\ ~load_raises(file) ) =>
      /\ result.kind = "digest"
      /\ result.text.body.kind = "template"
      /\ \E k \in DOMAIN result.text.body.lines :
           result.text.body.lines[k].tag = DegradedMarker

\* C18: whatever the tools, the providers and the history file do, a run that
\* has returned has run output_node and returns a digest, not an error text.
C18_AlwaysDigest ==
    pc = "returned" =>
      /\ result.kind = "digest"
      /\ result.completed

\* C19: an item without URL whose title hash no earlier item of the flattened
\* input carries is kept by dedup.
Flattened == all_items(source_results)

C19_NoUrlKeptByTitle ==
    \A k \in DOMAIN Flattened :
      ( /\ Flattened[k].url = <<>>
        /\ \A j \in 1..(k - 1) :
             title_hash(Flattened[j]) # title_hash(Flattened[k]) )
      => Flattened[k] \in Range(AfterDedup)

\* C20: every item dedup keeps is the first item of the flattened input that
\* carries its URL and the first that carries its title hash, and the kept
\* items are in the order of the input.  Stated for inputs in which every
\* item has a URL.
FirstCarrier(item) ==
    \E k \in DOMAIN Flattened :
      /\ Flattened[k] = item
      /\ \A j \in 1..(k - 1) :
           /\ Flattened[j].url # item.url
           /\ title_hash(Flattened[j]) # title_hash(item)

C20_FirstOccurrenceWins ==
    ( \A k \in DOMAIN Flattened : Flattened[k].url # <<>> ) =>
      /\ \A o \in DOMAIN AfterDedup : FirstCarrier(AfterDedup[o])
      /\ \A o1, o2 \in DOMAIN AfterDedup :
           o1 < o2 =>
             \E k1, k2 \in DOMAIN Flattened :
               /\ k1 < k2
               /\ Flattened[k1] = AfterDedup[o1]
               /\ Flattened[k2] = AfterDedup[o2]

\* The safe_request of the task p went through all its passes and each met
\* a timeout or a 429.
Exhausted(p) ==
    /\ p \in DOMAIN requests
    /\ requests[p].at = "returned"
    /\ Len(requests[p].outcomes) = MAX_RETRIES
    /\ \A i \in DOMAIN requests[p].outcomes :
         requests[p].outcomes[i] \in {"timeout", "rate_limited"}

\* C21: a fetch whose request exhausted its retries yields a result with no
\* items and an error that is not empty, and once collection_node has returned
\* that error is in the error list.
C21_ExhaustedFetchCarriesError ==
    \A p \in DOMAIN requests :
        (Exhausted(p) /\ Tasks(p[1])[p[2]].done) =>
            /\ Tasks(p[1])[p[2]].result.items = <<>>
            /\ Tasks(p[1])[p[2]].result.error # NoError
            /\ pc = "collected" =>
                   Tasks(p[1])[p[2]].result.error \in Range(errors)

\* C22: a safe_request makes at most MAX_RETRIES passes, a pass follows only
\* a pass that met a timeout or a 429, and before every pass but the first
\* it has slept 2^attempt seconds, attempt being the number of the pass
\* before.
C22_BoundedRetriesWithBackoff ==
    \A p \in DOMAIN requests :
        LET rq == requests[p]
        IN  /\ Len(rq.outcomes) <= MAX_RETRIES
            /\ rq.attempt <= MAX_RETRIES
            /\ \A i \in DOMAIN rq.outcomes :
                 i < Len(rq.outcomes) =>
                     rq.outcomes[i] \in {"timeout", "rate_limited"}
            /\ \A i \in DOMAIN rq.outcomes :
                 i > 1 =>
                     \E k \in DOMAIN rq.sleeps :
                         rq.sleeps[k] = [attempt |-> i - 2,
                                         seconds |-> Pow2(i - 2)]

\* The kept items whose hash is in the store, in the order of their rank.
SeenRanked ==
    SelectSeq(filtered_items,
              LAMBDA item : get_item_hash(item) \in DOMAIN Persisted)

Hashes(l) == [i \in DOMAIN l |-> get_item_hash(l[i])]

\* C23: the seen_items filtering_node writes are at most RECALLS_SHOWN, and
\* they are the best ranked of the kept items that the store holds.
C23_RecallsCapped ==
    pc = "filtered" =>
        /\ Len(seen_items) <= RECALLS_SHOWN
        /\ Hashes(seen_items) = Hashes(recalls(SeenRanked))

\* C24: when filtering_node kept nothing, synthesis_node calls no provider
\* and counts no call, writes the "no data collected" text and returns, so
\* that output_node is what runs next.
C24_NoDataDigest ==
    [][(pc = "filtered" /\ filtered_items = <<>>) =>
           /\ synthesis' = NoDataText
           /\ attempts' = attempts
           /\ llm_provider' = llm_provider
           /\ total_api_calls' = total_api_calls
           /\ pc' = "synthesized"]_vars

\* Every source was tried and none gave an item, a provider is configured,
\* and output_node has returned the "no data collected" text.
C24_Witness ==
    /\ pc = "returned"
    /\ source_results # <<>>
    /\ filtered_items = <<>>
    /\ Providers # <<>>
    /\ attempts = <<>>
    /\ result.kind = "digest"
    /\ result.text.body = NoDataText

IsPrefix(s, t) == Len(s) <= Len(t) /\ SubSeq(t, 1, Len(s)) = s

\* C25: in a run, every step leaves the error list as it was or longer with
\* what it held as a prefix, and never lowers total_api_calls.
C25_ErrorsAppendOnly ==
    [][IsPrefix(errors, errors') /\ total_api_calls' >= total_api_calls]_vars

\* A run in which collection_node and then synthesis_node added an error,
\* and both counted calls.
C25_Witness ==
    /\ pc = "returned"
    /\ Len(errors) >= 2
    /\ \E source_name \in AVAILABLE_TOOLS : errors[1] = FetchError(source_name)
    /\ \E provider \in {"gemini", "mistral"} :
         errors[Len(errors)] = AllLlmFailed(provider)
    /\ total_api_calls >= 2

AllTasks == primary_tasks \o secondary_tasks

TaskErrors(tasks) ==
    LET failed == SelectSeq(tasks, LAMBDA task : task.result.error # NoError)
    IN  [i \in DOMAIN failed |-> failed[i].result.error]

\* C26: whatever the order in which the fetches of a gather finish, once
\* collection_node has returned the mapping lists the results of the tasks
\* in the order in which the tasks were started, the errors are in that
\* order too, and there is one call per task.
C26_OrderIndependent ==
    (pc = "collected" /\ sources_to_query # <<>> /\ NoDup(sources_to_query)) =>
        /\ source_results = [i \in DOMAIN AllTasks |-> AllTasks[i].result]
        /\ errors = TaskErrors(AllTasks)
        /\ total_api_calls = Len(AllTasks)

\* Two fetches of one gather finished in the reverse of the order in which
\* they were started, the second one started with an error.
C26_Witness ==
    /\ pc = "collected"
    /\ NoDup(sources_to_query)
    /\ \E i, j \in DOMAIN primary_tasks :
         /\ i < j
         /\ primary_tasks[j].result.error # NoError
         /\ primary_tasks[i].result.error = NoError
         /\ \E a, b \in DOMAIN finished :
              /\ a < b
              /\ finished[a] = primary_tasks[j].source_name
              /\ finished[b] = primary_tasks[i].source_name

\* The moves of pc the edges of the graph allow: planning, collection (with
\* its gathers), filtering, synthesis (with its provider calls), output, in
\* this order, each entered from the one before.
GraphMoves ==
    { <<"start", "created">>, <<"start", "returned">>,
      <<"created", "planned">>,
      <<"planned", "primary">>, <<"planned", "collected">>,
      <<"primary", "secondary">>, <<"primary", "collected">>,
      <<"secondary", "collected">>,
      <<"collected", "filtered">>,
      <<"filtered", "calling">>, <<"filtered", "synthesized">>,
      <<"calling", "synthesized">>,
      <<"synthesized", "returned">> }

\* C27: a run goes through planning, collection, filtering, synthesis and
\* output in this order, each once, none skipped: the run moves only from
\* one node to the next one and returns only from output_node.
C27_StagesInOrder == [][pc' = pc \/ <<pc, pc'>> \in GraphMoves]_vars

\* C28: a step leaves the history file as it was, or holding all of what
\* mark_items_as_sent saves; it never leaves a file cut short, which
\* load_history reads as an empty history.
C28_AtomicSave ==
    [][\/ file' = file
       \/ /\ file' = JsonFile(mark_items_as_sent(file, new_items, now))
          /\ load_history(file', now) = file'.data]_vars

\* The sources FOCUS_SOURCE_MAPPING lists for the focus planning_node
\* settled on.
Listed ==
    IF focus \in DOMAIN FOCUS_SOURCE_MAPPING
    THEN Range(FOCUS_SOURCE_MAPPING[focus])
    ELSE Range(FOCUS_SOURCE_MAPPING["general"])

\* C29: once planning_node has returned, every source listed for the focus
\* is in priority_sources or in secondary_sources and not in both, the two
\* lists share no source, and sources_to_query is priority_sources followed
\* by secondary_sources.
C29_EveryListedSourcePlanned ==
    pc = "planned" =>
        /\ \A s \in Listed :
             (s \in Range(priority_sources)) # (s \in Range(secondary_sources))
        /\ Range(priority_sources) \cap Range(secondary_sources) = {}
        /\ sources_to_query = priority_sources \o secondary_sources

\* The items a run has committed: those it gave to a mark_items_as_sent
\* that returned.
Committed ==
    (IF pc = "returned" /\ ~saveRaised THEN Range(new_items) ELSE {})
    \cup (IF other.pc = "returned" /\ other.committed
          THEN Range(other.new_items) ELSE {})

====
